---- MODULE Spec2Model ----
(***************************************************************************)
(* A model of the MicroPython MQTT client of src/mqtt.py (class Client).    *)
(*                                                                         *)
(* Bytes are naturals in 0..255, byte strings are sequences of them, and    *)
(* text strings are sequences of code points.  Every public method is one  *)
(* action; loop_read is a loop, and the model keeps its position (pc) and   *)
(* its locals (ping_resp, data) so that one action is one iteration.        *)
(* The transport is the environment: what a sendall or a recv does is an    *)
(* input of the action that performs it.                                    *)
(***************************************************************************)
EXTENDS Integers, Sequences, FiniteSets, TLC

(***************************************************************************)
(* Bounds of the model.                                                     *)
(***************************************************************************)
\* identifier-issuing calls (subscribe, publish with qos > 0) in one run
MaxCalls == 2
\* packets the broker sends while one loop_read call runs
MaxBurst == 2
\* the largest of the small payload sizes given to the length codec
MaxSmallSize == 200

(***************************************************************************)
(* Program constants.                                                       *)
(***************************************************************************)
P_CONNECT == 1
P_CONNACK == 2
P_PUBLISH == 3
P_PUBACK == 4
P_PUBREL == 6
P_SUBSCRIBE == 8
P_SUBACK == 9
P_UNSUBSCRIBE == 10
P_UNSUBACK == 11
P_PINGREQ == 12
P_PINGRESP == 13
P_DISCONNECT == 14
\* the 0xffff of "self._packet_id + 1 & 0xffff or 1"
IdMask == 65535
\* the bound asserted by remaining_len: (256 << 20) - 1
MaxRemaining == 256 * (2 ^ 20) - 1
\* the range(4) of _recv_len
MaxLenBytes == 4
\* connect(host, port=1883, keepalive=60)
Keepalive == 60

(***************************************************************************)
(* Python's integer and bytes primitives.                                   *)
(***************************************************************************)
RECURSIVE BitAnd(_, _)
BitAnd(a, b) ==
  IF a = 0 \/ b = 0 THEN 0
  ELSE (a % 2) * (b % 2) + 2 * BitAnd(a \div 2, b \div 2)

RECURSIVE BitOr(_, _)
BitOr(a, b) ==
  IF a = 0 THEN b
  ELSE IF b = 0 THEN a
  ELSE (IF a % 2 = 1 \/ b % 2 = 1 THEN 1 ELSE 0) + 2 * BitOr(a \div 2, b \div 2)

Min(a, b) == IF a < b THEN a ELSE b

\* s[:n]
Take(s, n) == SubSeq(s, 1, Min(n, Len(s)))

\* s[n:]
Drop(s, n) == SubSeq(s, Min(n, Len(s)) + 1, Len(s))

\* n.to_bytes(2, 'big'), for n that fits
ToBytes2(n) == << n \div 256, n % 256 >>

\* a byte string without its leading zero bytes
RECURSIVE Significant(_)
Significant(s) ==
  IF s # << >> /\ Head(s) = 0 THEN Significant(Tail(s)) ELSE s

RECURSIVE BigEndian(_)
BigEndian(s) ==
  IF s = << >> THEN 0
  ELSE 256 * BigEndian(SubSeq(s, 1, Len(s) - 1)) + s[Len(s)]

\* int.from_bytes(s, 'big').  Python's integers have no width; the model keeps
\* the value when it has at most three significant bytes and writes 2^24 for
\* every larger one, which the code only ever compares with 16-bit identifiers.
FromBytes(s) ==
  IF Len(Significant(s)) > 3 THEN 2 ^ 24 ELSE BigEndian(Significant(s))

\* str.encode('utf8') for code points below 0x800
RECURSIVE Utf8Encode(_)
Utf8Encode(str) ==
  IF str = << >> THEN << >>
  ELSE LET c == Head(str) IN
       (IF c < 128 THEN << c >>
        ELSE << 192 + (c \div 64), 128 + (c % 64) >>) \o Utf8Encode(Tail(str))

\* str(bytes, 'utf8'): << TRUE, text >>, or << FALSE, << >> >> for a UnicodeError
RECURSIVE Utf8Decode(_)
Utf8Decode(bs) ==
  IF bs = << >> THEN << TRUE, << >> >>
  ELSE LET b == Head(bs) IN
       IF b < 128
       THEN LET r == Utf8Decode(Tail(bs)) IN << r[1], IF r[1] THEN << b >> \o r[2] ELSE << >> >>
       ELSE IF b >= 194 /\ b < 224 /\ Len(bs) >= 2 /\ bs[2] >= 128 /\ bs[2] < 192
       THEN LET r == Utf8Decode(Drop(bs, 2)) IN
            << r[1], IF r[1] THEN << (b - 192) * 64 + (bs[2] - 128) >> \o r[2] ELSE << >> >>
       ELSE << FALSE, << >> >>

(***************************************************************************)
(* The packet codec.                                                        *)
(***************************************************************************)
\* the while loop of remaining_len: the bytes written into _size_buf
RECURSIVE SizeBytes(_)
SizeBytes(size) ==
  LET _byte == BitAnd(size, 127)
      rest == size \div 128
  IN IF rest > 0 THEN << BitOr(_byte, 128) >> \o SizeBytes(rest) ELSE << _byte >>

\* the encoding without the assert
remaining_lenUnchecked(size) == [raised |-> "none", bytes |-> SizeBytes(size)]

\* remaining_len(size): the assert, then the encoding
remaining_len(size) ==
  IF size <= MaxRemaining
  THEN [raised |-> "none", bytes |-> SizeBytes(size)]
  ELSE [raised |-> "AssertionError", bytes |-> << >>]

\* the counter without its "or 1"
NextPacketIdZero(p) == BitAnd(p + 1, IdMask)

\* the counter without its "& 0xffff"
NextPacketIdWide(p) == p + 1

\* "self._packet_id + 1 & 0xffff or 1"
NextPacketId(p) ==
  LET s == BitAnd(p + 1, IdMask) IN IF s = 0 THEN 1 ELSE s

\* a fixed header with the flags as the caller passed them
FixedHeaderAsPassed(ctrl_typ, flags0, size) ==
  LET rl == remaining_len(size)
  IN IF rl.raised # "none" THEN [raised |-> rl.raised, bytes |-> << >>]
     ELSE [raised |-> "none", bytes |-> << BitOr(ctrl_typ * 16, flags0) >> \o rl.bytes]

\* the argument of the first sendall of _send, for a payload of size bytes:
\* the flags override, the fixed-header byte and the remaining length
FixedHeader(ctrl_typ, flags0, size) ==
  LET flags == IF ctrl_typ \in {P_PUBREL, P_SUBSCRIBE, P_UNSUBSCRIBE} THEN 2 ELSE flags0
      ctrl_pkt == << BitOr(ctrl_typ * 16, flags) >>
      rl == remaining_len(size)
  IN IF rl.raised # "none" THEN [raised |-> rl.raised, bytes |-> << >>]
     ELSE [raised |-> "none", bytes |-> ctrl_pkt \o rl.bytes]

\* _send with the transport's answer as an input: fault = 0 when both sendall
\* calls succeed, 1 when the first raises, 2 when the second raises.  wire is
\* the sequence of byte strings handed to the transport.
_send(sockv, ctrl_typ, flags0, payload, fault) ==
  LET h == FixedHeader(ctrl_typ, flags0, Len(payload))
  IN IF sockv = "None" THEN [raised |-> "AttributeError", wire |-> << >>]
     ELSE IF h.raised # "none" THEN [raised |-> h.raised, wire |-> << >>]
     ELSE IF fault = 1 THEN [raised |-> "OSError", wire |-> << >>]
     ELSE IF fault = 2 THEN [raised |-> "OSError", wire |-> << h.bytes >>]
     ELSE [raised |-> "none", wire |-> << h.bytes, payload >>]

(***************************************************************************)
(* Inputs.                                                                  *)
(***************************************************************************)
\* "a/b"
TopicAB == << 97, 47, 98 >>
\* "hi"
TextHi == << 104, 105 >>
\* "é", one code point that takes two bytes
TextE == << 233 >>

Topics == { TopicAB }
Messages == { TextHi }
\* the << qos, retain >> of a publish
Deliveries == { << 0, FALSE >>, << 0, TRUE >>, << 1, FALSE >> }
SendFaults == { 0, 1, 2 }

(***************************************************************************)
(* State.                                                                   *)
(***************************************************************************)
VARIABLES
  sock,        \* "None" or "sock": self.sock
  configured,  \* connect() has stored host, port and keepalive
  _packet_id,  \* self._packet_id
  connected,   \* self.connected
  _pub_queue,  \* self._pub_queue: << packet id, flags, payload >> entries
  pc,          \* "idle"; in loop_read, "poll" before the first poll, "loop" after it
  ping_resp,   \* local of loop_read
  data,        \* local of loop_read: << >> while unbound, << bytes >> once bound
  inbuf,       \* bytes the broker has written and the client has not read
  peer,        \* "open", "closed" (recv returns b'') or "reset" (recv raises OSError)
  call,        \* the last operation: [op, qos]
  ret,         \* what it returned: << >> for None, << v >> for v
  raised,      \* "none", or the exception that left it
  wire,        \* the byte strings it handed to sendall, in order
  delivered,   \* the messages it passed to on_message, in order
  pkt,         \* what it read: [ctrl, len, own, short]
  old,         \* the client's fields when it was called: [queue, id, connected],
               \* and for a round of the loop the bytes then unread: inbuf
  gotPing,     \* a round of the current loop_read call has read a PINGRESP
  nIssued,     \* how many times the identifier counter has advanced
  calls        \* identifier-issuing calls made in this run

client == << sock, configured, _packet_id, connected, _pub_queue >>
locals == << pc, ping_resp, data, gotPing >>
net == << inbuf, peer >>
obs == << call, ret, raised, wire, delivered, pkt, old >>
vars == << client, locals, net, obs, nIssued, calls >>

\* pkt when nothing was read.  ctrl is the fixed-header byte, len the decoded
\* remaining length, own the payload bytes read for this packet, and short
\* tells where a read fell short: "no", "header", "length" or "payload"
NoPkt == [ctrl |-> 0, len |-> 0, own |-> << >>, short |-> "no"]
Entry == [queue |-> _pub_queue, id |-> _packet_id, connected |-> connected]
NoCall(name) == [op |-> name, qos |-> 0]

\* every boolean read as 0
Bool2IntZero(b) == 0

\* a bool where an integer is read: True is 1, False is 0
Bool2Int(b) == IF b THEN 1 ELSE 0

Ids(queue) == { queue[i][1] : i \in DOMAIN queue }

(***************************************************************************)
(* Initial states: a client as __init__ leaves it, and a client that has    *)
(* been running for long enough for the counter to be about to wrap, with   *)
(* or without its first QoS-1 publish still unacknowledged.                 *)
(***************************************************************************)
\* the entry that publish("a/b", "hi", qos=1) leaves when it is the first call
FirstEntry ==
  << 2, 2, ToBytes2(3) \o TopicAB \o ToBytes2(2) \o TextHi >>

Fresh ==
  /\ _packet_id = 1
  /\ nIssued = 0
  /\ _pub_queue = << >>
  /\ sock = "None"
  /\ configured = FALSE
  /\ connected = FALSE

\* connect, publish("a/b", "hi", qos=1) and then subscribe calls until the
\* counter stands at IdMask, with no PUBACK received in between
Aged ==
  /\ _packet_id = IdMask
  /\ nIssued = IdMask - 1
  /\ _pub_queue = << FirstEntry >>
  /\ sock = "sock"
  /\ configured = TRUE
  /\ connected = TRUE

Init ==
  /\ Fresh \/ Aged
  /\ pc = "idle"
  /\ ping_resp = FALSE
  /\ data = << >>
  /\ gotPing = FALSE
  /\ inbuf = << >>
  /\ peer = "open"
  /\ call = NoCall("init")
  /\ ret = << >>
  /\ raised = "none"
  /\ wire = << >>
  /\ delivered = << >>
  /\ pkt = NoPkt
  /\ old = Entry
  /\ calls = 0

(***************************************************************************)
(* Outbound operations.                                                     *)
(***************************************************************************)
\* a socket that was reset, or never got connected, accepts no bytes
Tx(fault) == IF peer = "reset" /\ fault = 0 THEN 1 ELSE fault

\* the payload of subscribe, after the packet identifier
RECURSIVE TopicFilters(_, _)
TopicFilters(topics, qos) ==
  IF topics = << >> THEN << >>
  ELSE LET topic == Utf8Encode(Head(topics)) IN
       ToBytes2(Len(topic)) \o topic \o << qos >> \o TopicFilters(Tail(topics), qos)

subscribe(topics, qos, fault) ==
  /\ pc = "idle"
  /\ calls < MaxCalls
  /\ LET id == NextPacketId(_packet_id)
         remaining == ToBytes2(id) \o TopicFilters(topics, qos)
         s == _send(sock, P_SUBSCRIBE, 0, remaining, Tx(fault))
     IN /\ _packet_id' = id
        /\ raised' = s.raised
        /\ wire' = s.wire
        /\ ret' = IF s.raised = "none" THEN << id >> ELSE << >>
  /\ nIssued' = nIssued + 1
  /\ calls' = calls + 1
  /\ call' = [op |-> "subscribe", qos |-> qos]
  /\ delivered' = << >>
  /\ pkt' = NoPkt
  /\ old' = Entry
  /\ UNCHANGED << sock, configured, connected, _pub_queue, locals, net >>

\* an assignment in place of the append
EnqueueAlone(queue, entry) == << entry >>

\* "self._pub_queue.append((self._packet_id, flags, payload))"
Enqueue(queue, entry) == Append(queue, entry)

publish(topic, message, qos, retain, fault) ==
  /\ pc = "idle"
  /\ qos # 0 => calls < MaxCalls
  /\ LET flags == BitOr(qos * 2, Bool2Int(retain))
         etopic == Utf8Encode(topic)
         id == IF qos # 0 THEN NextPacketId(_packet_id) ELSE _packet_id
         payload == ToBytes2(Len(etopic)) \o etopic
                      \o (IF qos # 0 THEN ToBytes2(id) ELSE << >>)
                      \o Utf8Encode(message)
         s == _send(sock, P_PUBLISH, flags, payload, Tx(fault))
     IN /\ _packet_id' = id
        /\ raised' = s.raised
        /\ wire' = s.wire
        /\ _pub_queue' = IF s.raised = "none" /\ qos # 0
                         THEN Enqueue(_pub_queue, << id, flags, payload >>)
                         ELSE _pub_queue
        /\ ret' = IF s.raised = "none" /\ qos # 0 THEN << id >> ELSE << >>
  /\ nIssued' = IF qos # 0 THEN nIssued + 1 ELSE nIssued
  /\ calls' = IF qos # 0 THEN calls + 1 ELSE calls
  /\ call' = [op |-> "publish", qos |-> qos]
  /\ delivered' = << >>
  /\ pkt' = NoPkt
  /\ old' = Entry
  /\ UNCHANGED << sock, configured, connected, locals, net >>

\* republish(flags, payload) of the i-th in-flight entry
republish(i, fault) ==
  /\ pc = "idle"
  /\ i \in DOMAIN _pub_queue
  /\ LET s == _send(sock, P_PUBLISH, BitOr(_pub_queue[i][2], 8), _pub_queue[i][3], Tx(fault))
     IN /\ raised' = s.raised
        /\ wire' = s.wire
  /\ ret' = << >>
  /\ call' = NoCall("republish")
  /\ delivered' = << >>
  /\ pkt' = NoPkt
  /\ old' = Entry
  /\ UNCHANGED << client, locals, net, nIssued, calls >>

ping(fault) ==
  /\ pc = "idle"
  /\ IF sock = "None" THEN raised' = "AttributeError" /\ wire' = << >>
     ELSE IF Tx(fault) # 0 THEN raised' = "OSError" /\ wire' = << >>
     ELSE raised' = "none" /\ wire' = << << P_PINGREQ * 16, 0 >> >>
  /\ ret' = << >>
  /\ call' = NoCall("ping")
  /\ delivered' = << >>
  /\ pkt' = NoPkt
  /\ old' = Entry
  /\ UNCHANGED << client, locals, net, nIssued, calls >>

(***************************************************************************)
(* The connection handshake.                                                *)
(***************************************************************************)
\* what the broker may answer to CONNECT before it goes silent
\* (accepted; accepted with a session; refused; not a CONNACK; nothing; cut short)
ConnackReplies ==
  { << P_CONNACK * 16, 2, 0, 0 >>, << P_CONNACK * 16, 2, 1, 0 >>,
    << P_CONNACK * 16, 2, 0, 5 >>, << P_PUBLISH * 16, 2, 0, 0 >>,
    << >>, << P_CONNACK * 16, 2 >> }

\* how an attempt may go: << sock.connect succeeds, send fault, reply >>
Attempts ==
  { << FALSE, 0, << >> >> }
    \cup { << TRUE, f, << >> >> : f \in SendFaults \ { 0 } }
    \cup { << TRUE, 0, r >> : r \in ConnackReplies }

\* the variable header and payload of CONNECT for Client() and connect(host)
ConnectPayload ==
  << 0, 4, 77, 81, 84, 84, 4 >> \o << Bool2Int(TRUE) * 2 >>
     \o ToBytes2(Keepalive) \o ToBytes2(Len(Utf8Encode(<< >>))) \o Utf8Encode(<< >>)

\* "assert ack >> 4 == P_CONNACK"
IsConnack(ack) == ack \div 16 = P_CONNACK

\* no check of the return code
AcceptedAny(ret_code) == TRUE

\* "assert ret_code == 0"
Accepted(ret_code) == ret_code = 0

\* reconnect(), with cfg telling whether self.keepalive exists, netok whether
\* sock.connect succeeds, and reply what the broker answers
Handshake(cfg, netok, fault, reply) ==
  LET s == _send("sock", P_CONNECT, 0, ConnectPayload, fault)
      ack == reply[1]
      rest == Take(Drop(reply, 1), 3)
      seen == [ctrl |-> IF reply = << >> THEN 0 ELSE ack, len |-> 0, own |-> rest,
               short |-> IF reply = << >> THEN "header"
                         ELSE IF Len(rest) # 3 THEN "payload" ELSE "no"]
      dead == [sock |-> "sock", connected |-> connected, peer |-> "reset",
               ret |-> << >>, wire |-> << >>, pkt |-> NoPkt]
  IN IF ~cfg THEN dead @@ [raised |-> "AttributeError"]
     ELSE IF ~netok THEN dead @@ [raised |-> "OSError"]
     ELSE IF s.raised # "none" THEN [dead EXCEPT !.wire = s.wire] @@ [raised |-> s.raised]
     ELSE IF reply = << >>
       THEN [dead EXCEPT !.wire = s.wire, !.peer = "closed", !.pkt = seen]
              @@ [raised |-> "ValueError"]
     ELSE IF ~IsConnack(ack)
       THEN [dead EXCEPT !.wire = s.wire, !.peer = "open", !.pkt = [seen EXCEPT !.own = << >>]]
              @@ [raised |-> "AssertionError"]
     ELSE IF Len(rest) # 3
       THEN [dead EXCEPT !.wire = s.wire, !.peer = "closed", !.connected = TRUE, !.pkt = seen]
              @@ [raised |-> "ValueError"]
     ELSE IF ~Accepted(rest[3])
       THEN [dead EXCEPT !.wire = s.wire, !.peer = "open", !.connected = TRUE, !.pkt = seen]
              @@ [raised |-> "AssertionError"]
     ELSE [sock |-> "sock", connected |-> TRUE, peer |-> "open",
           ret |-> << BitAnd(rest[2], 1) >>, wire |-> s.wire, pkt |-> seen, raised |-> "none"]

Reconnecting(name, cfg, netok, fault, reply) ==
  /\ pc = "idle"
  /\ \E h \in { Handshake(cfg, netok, fault, reply) } :
        /\ sock' = h.sock
        /\ connected' = h.connected
        /\ peer' = h.peer
        /\ ret' = h.ret
        /\ wire' = h.wire
        /\ raised' = h.raised
        /\ pkt' = h.pkt
  /\ old' = Entry
  /\ inbuf' = << >>
  /\ call' = NoCall(name)
  /\ delivered' = << >>
  /\ UNCHANGED << _packet_id, _pub_queue, locals, nIssued, calls >>

connect(netok, fault, reply) ==
  /\ configured' = TRUE
  /\ Reconnecting("connect", TRUE, netok, fault, reply)

reconnect(netok, fault, reply) ==
  /\ UNCHANGED configured
  /\ Reconnecting("reconnect", configured, netok, fault, reply)

(***************************************************************************)
(* What the broker sends.                                                   *)
(***************************************************************************)
\* a control packet as the broker writes it
Packet(typ, flags, payload) ==
  << typ * 16 + flags >> \o SizeBytes(Len(payload)) \o payload

\* an identifier the client has not used: halfway around the counter
OrphanId == IdMask \div 2

\* PUBLISH "a/b", qos 1, identifier 0x0001, payload "hi"
PublishQos1 == Packet(P_PUBLISH, 2, ToBytes2(Len(TopicAB)) \o TopicAB \o ToBytes2(1) \o TextHi)
\* PUBLISH "é", qos 0, retained, empty payload
PublishQos0 == Packet(P_PUBLISH, 1, ToBytes2(Len(Utf8Encode(TextE))) \o Utf8Encode(TextE))
Puback(id) == Packet(P_PUBACK, 0, ToBytes2(id))
Suback == Packet(P_SUBACK, 0, ToBytes2(_packet_id) \o << 0 >>)

\* the well-formed packets the broker may write, one behind the other: those
\* of the protocol, an acknowledgment of any in-flight or unknown identifier,
\* and two packets with no payload where one is due
InPackets ==
  { Packet(P_PINGRESP, 0, << >>), Suback, PublishQos1, PublishQos0,
    Packet(P_DISCONNECT, 0, << >>), Packet(P_UNSUBACK, 0, ToBytes2(_packet_id)),
    Packet(P_PUBACK, 0, << >>), Packet(P_PUBLISH, 0, << >>) }
  \cup { Puback(id) : id \in Ids(_pub_queue) \cup { OrphanId } }

\* the byte streams made of at most n whole packets
RECURSIVE Bursts(_)
Bursts(n) ==
  IF n = 0 THEN { << >> }
  ELSE Bursts(n - 1) \cup { b \o p : b \in Bursts(n - 1), p \in InPackets }

\* a stream that cannot be decoded to its end: a packet cut short, or a length
\* field of four continuation bytes
CutStreams ==
  ({ Take(p, n) : p \in { Puback(OrphanId), Suback }, n \in 1 .. 4 } \ { Puback(OrphanId) })
    \cup { << P_PUBACK * 16, 255, 255, 255, 255 >> }

\* what the socket yields during one loop_read call: the bytes, and whether
\* the peer then stays silent ("open"), closes or resets the connection.  A
\* peer that closes behind two whole packets or more is seen by the model as
\* closing before the next call.
Arrivals ==
  { << b, "open" >> : b \in Bursts(MaxBurst) \cup CutStreams }
    \cup { << b, "closed" >> : b \in Bursts(1) \cup CutStreams }
    \cup { << << >>, "reset" >> }

(***************************************************************************)
(* The inbound dispatch loop.                                               *)
(***************************************************************************)
\* sock.recv(n) on the unread bytes buf: what is there, up to n bytes; with
\* nothing there, b'' from a closed peer and an OSError (timeout, reset) otherwise
Recv(buf, n, peerv) ==
  IF buf # << >> THEN [raised |-> "none", bytes |-> Take(buf, n), rest |-> Drop(buf, n)]
  ELSE IF peerv = "closed" THEN [raised |-> "none", bytes |-> << >>, rest |-> << >>]
  ELSE [raised |-> "OSError", bytes |-> << >>, rest |-> << >>]

\* the for loop of _recv_len from its i-th round on
RECURSIVE RecvLenFrom(_, _, _, _)
RecvLenFrom(buf, peerv, i, value) ==
  IF i = MaxLenBytes THEN [raised |-> "Exception", value |-> 0, rest |-> buf]
  ELSE LET r == Recv(buf, 1, peerv) IN
       IF r.raised # "none" THEN [raised |-> r.raised, value |-> 0, rest |-> r.rest]
       ELSE IF Len(r.bytes) # 1 THEN [raised |-> "ValueError", value |-> 0, rest |-> r.rest]
       ELSE LET _byte == r.bytes[1]
                v == BitOr(value, BitAnd(_byte, 127) * (2 ^ (7 * i)))
            IN IF BitAnd(_byte, 128) = 0
               THEN [raised |-> "none", value |-> v, rest |-> r.rest]
               ELSE RecvLenFrom(r.rest, peerv, i + 1, v)

\* a decoder that shifts the first byte by 7 bits already
_recv_lenShifted(buf, peerv) == RecvLenFrom(buf, peerv, 1, 0)

\* _recv_len(): the loop from its first round, with value = 0
_recv_len(buf, peerv) == RecvLenFrom(buf, peerv, 0, 0)

\* _unpack_publish(data, retain, qos); pid is the byte string sent back in
\* the PUBACK (the integer 0 of the qos = 0 case is never read: << >> here)
_unpack_publish(dat, retain, qos) ==
  LET topic_len == FromBytes(Take(dat, 2))
      d1 == Drop(dat, 2)
      topic == Utf8Decode(Take(d1, topic_len))
      d2 == Drop(d1, topic_len)
      pid == IF qos # 0 THEN Take(dat, 2) ELSE << >>
      d3 == IF qos # 0 THEN Drop(d2, 2) ELSE d2
      payload == Utf8Decode(d3)
  IN IF topic[1] /\ payload[1]
     THEN [raised |-> "none", pid |-> pid,
           msg |-> [topic |-> topic[2], payload |-> payload[2], qos |-> qos, retain |-> retain]]
     ELSE [raised |-> "UnicodeError", pid |-> pid,
           msg |-> [topic |-> << >>, payload |-> << >>, qos |-> qos, retain |-> retain]]

\* a loop that deletes every entry up to the acknowledged one
AcknowledgeUpTo(queue, packet_id) ==
  LET hits == { i \in DOMAIN queue : queue[i][1] = packet_id } IN
  IF hits = { } THEN queue
  ELSE LET i == CHOOSE j \in hits : \A k \in hits : j <= k
       IN SubSeq(queue, i + 1, Len(queue))

\* a loop that deletes the oldest entry when none has that id
AcknowledgeOrOldest(queue, packet_id) ==
  LET hits == { i \in DOMAIN queue : queue[i][1] = packet_id } IN
  IF hits = { } THEN SubSeq(queue, 2, Len(queue))
  ELSE LET i == CHOOSE j \in hits : \A k \in hits : j <= k
       IN SubSeq(queue, 1, i - 1) \o SubSeq(queue, i + 1, Len(queue))

\* the for loop of the PUBACK handler: delete the first entry with that id
Acknowledge(queue, packet_id) ==
  LET hits == { i \in DOMAIN queue : queue[i][1] = packet_id } IN
  IF hits = { } THEN queue
  ELSE LET i == CHOOSE j \in hits : \A k \in hits : j <= k
       IN SubSeq(queue, 1, i - 1) \o SubSeq(queue, i + 1, Len(queue))

\* a PUBLISH handler that calls on_message first and sends the PUBACK after
DeliverThenAck(go, s, msg, cbRaises) ==
  IF cbRaises
  THEN [go EXCEPT !.raised = "CallbackError", !.brk = TRUE, !.delivered = << msg >>]
  ELSE IF s.raised # "none"
  THEN [go EXCEPT !.raised = s.raised, !.brk = TRUE, !.wire = s.wire, !.delivered = << msg >>]
  ELSE [go EXCEPT !.wire = s.wire, !.delivered = << msg >>]

\* the end of the PUBLISH handler: "self._send(P_PUBACK, payload=pid)" when
\* qos is 1, of which s is the outcome, then "self.on_message(...)" with msg
AckThenDeliver(go, s, msg, cbRaises) ==
  IF s.raised # "none"
  THEN [go EXCEPT !.raised = s.raised, !.brk = TRUE, !.wire = s.wire]
  ELSE IF cbRaises
  THEN [go EXCEPT !.raised = "CallbackError", !.brk = TRUE, !.wire = s.wire,
                  !.delivered = << msg >>]
  ELSE [go EXCEPT !.wire = s.wire, !.delivered = << msg >>]

\* a DISCONNECT handler that goes on to the next round
HandleDisconnectOn(go) == [go EXCEPT !.connected = FALSE]

\* the DISCONNECT handler: "self.connected = False" and "break"
HandleDisconnect(go) == [go EXCEPT !.connected = FALSE, !.brk = TRUE]

\* the handlers of loop_read for a packet with fixed-header byte ctrl_pkt,
\* run with the local data as dat (<< >> while unbound)
Dispatch(ctrl_pkt, dat, queue, conn, pr, sockv, fault, cbRaises) ==
  LET ctrl_pkt_typ == ctrl_pkt \div 16
      go == [raised |-> "none", brk |-> FALSE, connected |-> conn, queue |-> queue,
             ping_resp |-> pr, wire |-> << >>, delivered |-> << >>]
  IN IF ctrl_pkt_typ = P_PINGRESP THEN [go EXCEPT !.ping_resp = TRUE]
     ELSE IF ctrl_pkt_typ = P_SUBACK THEN
       IF dat = << >> THEN [go EXCEPT !.raised = "NameError", !.brk = TRUE]
       ELSE IF Len(dat[1]) < 3 THEN [go EXCEPT !.raised = "IndexError", !.brk = TRUE]
       ELSE go
     ELSE IF ctrl_pkt_typ = P_PUBLISH THEN
       IF dat = << >> THEN [go EXCEPT !.raised = "NameError", !.brk = TRUE]
       ELSE LET retain == BitAnd(ctrl_pkt, 1)
                qos == BitAnd(ctrl_pkt \div 2, 3)
                u == _unpack_publish(dat[1], retain, qos)
                s == IF qos = 1 THEN _send(sockv, P_PUBACK, 0, u.pid, fault)
                     ELSE [raised |-> "none", wire |-> << >>]
            IN IF u.raised # "none" THEN [go EXCEPT !.raised = u.raised, !.brk = TRUE]
               ELSE AckThenDeliver(go, s, u.msg, cbRaises)
     ELSE IF ctrl_pkt_typ = P_PUBACK THEN
       IF dat = << >> THEN [go EXCEPT !.raised = "NameError", !.brk = TRUE]
       ELSE [go EXCEPT !.queue = Acknowledge(queue, FromBytes(dat[1]))]
     ELSE IF ctrl_pkt_typ = P_DISCONNECT THEN HandleDisconnect(go)
     ELSE go

\* one round of the while loop of loop_read, entered because poll reported the
\* socket readable: read the fixed header, the length and the payload, dispatch
Iteration(buf, peerv, dat, queue, conn, pr, sockv, fault, cbRaises) ==
  LET h == Recv(buf, 1, peerv)
      stop == [raised |-> "none", brk |-> TRUE, connected |-> conn, queue |-> queue,
               ping_resp |-> pr, wire |-> << >>, delivered |-> << >>,
               data |-> dat, rest |-> << >>, pkt |-> [NoPkt EXCEPT !.short = "header"]]
  IN IF h.raised # "none" THEN [stop EXCEPT !.raised = h.raised]
     ELSE IF Len(h.bytes) # 1 THEN [stop EXCEPT !.connected = FALSE]
     ELSE LET ctrl_pkt == h.bytes[1]
              l == _recv_len(h.rest, peerv)
              data_len == l.value
              p == IF data_len # 0 THEN Recv(l.rest, data_len, peerv)
                   ELSE [raised |-> "none", bytes |-> << >>, rest |-> l.rest]
              dat1 == IF data_len # 0 THEN << p.bytes >> ELSE dat
              seen == [ctrl |-> ctrl_pkt, len |-> data_len, own |-> p.bytes,
                       short |-> IF Len(p.bytes) < data_len THEN "payload" ELSE "no"]
          IN IF l.raised # "none"
               THEN [stop EXCEPT !.raised = l.raised, !.rest = l.rest,
                        !.pkt = [ctrl |-> ctrl_pkt, len |-> 0, own |-> << >>,
                                 short |-> IF l.raised = "Exception" THEN "no" ELSE "length"]]
             ELSE IF p.raised # "none"
               THEN [stop EXCEPT !.raised = p.raised, !.rest = p.rest, !.pkt = seen]
             ELSE Dispatch(ctrl_pkt, dat1, queue, conn, pr, sockv, fault, cbRaises)
                    @@ [data |-> dat1, rest |-> p.rest, pkt |-> seen]

Readable == inbuf # << >> \/ peer # "open"

\* loop_read up to the first poll, which waits for half the keepalive time
loop_read ==
  /\ pc = "idle"
  /\ IF configured
     THEN /\ pc' = "poll"
          /\ raised' = "none"
     ELSE /\ pc' = "idle"
          /\ raised' = "AttributeError"
  /\ ping_resp' = FALSE
  /\ data' = << >>
  /\ gotPing' = FALSE
  /\ call' = NoCall("loop_read")
  /\ ret' = << >>
  /\ wire' = << >>
  /\ delivered' = << >>
  /\ pkt' = NoPkt
  /\ old' = Entry
  /\ UNCHANGED << client, net, nIssued, calls >>

\* the first poll: stream and ending are what the socket yields while the call
\* waits; a socket with unread bytes, or whose peer is gone, yields nothing new.
\* Every later poll has timeout 0 and sees what is there.
loop_wait(stream, ending) ==
  /\ pc = "poll"
  /\ pc' = "loop"
  /\ IF peer = "open" /\ inbuf = << >>
     THEN inbuf' = stream /\ peer' = ending
     ELSE stream = << >> /\ ending = "open" /\ UNCHANGED << inbuf, peer >>
  /\ UNCHANGED << client, ping_resp, data, gotPing, obs, nIssued, calls >>

\* the while condition is false: "return ping_resp" (True is 1, False is 0)
loop_return ==
  /\ pc = "loop"
  /\ ~Readable
  /\ pc' = "idle"
  /\ ret' = << Bool2Int(ping_resp) >>
  /\ raised' = "none"
  /\ call' = NoCall("loop_return")
  /\ wire' = << >>
  /\ delivered' = << >>
  /\ pkt' = NoPkt
  /\ old' = Entry
  /\ data' = << >>
  /\ UNCHANGED << client, ping_resp, gotPing, net, nIssued, calls >>

\* one round of the while loop; a break returns ping_resp, an exception leaves
loop_packet(fault, cbRaises) ==
  /\ pc = "loop"
  /\ Readable
  /\ \E r \in { Iteration(inbuf, peer, data, _pub_queue, connected, ping_resp,
                            sock, Tx(fault), cbRaises) } :
        /\ connected' = r.connected
        /\ _pub_queue' = r.queue
        /\ ping_resp' = r.ping_resp
        /\ inbuf' = r.rest
        /\ wire' = r.wire
        /\ delivered' = r.delivered
        /\ pkt' = r.pkt
        /\ raised' = r.raised
        /\ pc' = IF r.brk THEN "idle" ELSE "loop"
        /\ data' = IF r.brk THEN << >> ELSE r.data
        /\ ret' = IF r.brk /\ r.raised = "none" THEN << Bool2Int(r.ping_resp) >> ELSE << >>
        /\ gotPing' = (gotPing \/ (r.raised = "none" /\ r.pkt.short = "no"
                                       /\ r.pkt.ctrl \div 16 = P_PINGRESP))
  /\ call' = NoCall("loop_packet")
  /\ old' = Entry @@ [inbuf |-> inbuf]
  /\ UNCHANGED << sock, configured, _packet_id, peer, nIssued, calls >>

(***************************************************************************)
(* The specification.                                                       *)
(***************************************************************************)
\* the fixed-header byte the next round of the loop will read is a PUBLISH
PublishAhead == inbuf # << >> /\ Head(inbuf) \div 16 = P_PUBLISH

\* The caller of the model: it makes its outbound calls while the socket holds
\* no unread bytes (such a call does not read the socket, so it commutes with
\* whatever has arrived), and may call loop_read, connect and reconnect always.
Drained == pc = "idle" /\ inbuf = << >>

Next ==
  \/ Drained /\ \E fault \in SendFaults : subscribe(<< TopicAB >>, 0, fault)
  \/ Drained /\ \E topic \in Topics, message \in Messages, d \in Deliveries,
                   fault \in SendFaults : publish(topic, message, d[1], d[2], fault)
  \/ Drained /\ \E i \in 1 .. MaxCalls + 1, fault \in SendFaults : republish(i, fault)
  \/ Drained /\ \E fault \in SendFaults : ping(fault)
  \/ pc = "idle" /\ \E a \in Attempts : connect(a[1], a[2], a[3])
  \/ pc = "idle" /\ \E a \in Attempts : reconnect(a[1], a[2], a[3])
  \/ loop_read
  \/ pc = "poll" /\ \E a \in Arrivals : loop_wait(a[1], a[2])
  \/ loop_return
  \/ \E fault \in SendFaults, cbRaises \in BOOLEAN :
        /\ PublishAhead \/ (fault = 0 /\ ~cbRaises)
        /\ loop_packet(fault, cbRaises)

Spec == Init /\ [][Next]_vars

(***************************************************************************)
(* The codec on its own: the send routine and the two length functions,     *)
(* applied to arguments that the operations above never pass.               *)
(***************************************************************************)
\* the payload sizes tried: the small ones, and those around each power of 128
SizeSamples ==
  (0 .. MaxSmallSize) \cup { 128 ^ k + d : k \in 1 .. MaxLenBytes, d \in -2 .. 1 }

\* the payload sizes tried with every packet type and flags value
HeaderSizes == { 0, 128, MaxRemaining - 1, MaxRemaining, MaxRemaining + 1 }

CtrlTypes == P_CONNECT .. P_DISCONNECT
FlagValues == 0 .. 15

CodecCall(name, ctrl_typ, flags, size) ==
  [op |-> name, qos |-> 0, ctrl_typ |-> ctrl_typ, flags |-> flags, size |-> size]

\* a client that connect() has just returned from
CodecInit ==
  /\ _packet_id = 1
  /\ nIssued = 0
  /\ _pub_queue = << >>
  /\ sock = "sock"
  /\ configured = TRUE
  /\ connected = TRUE
  /\ pc = "idle"
  /\ ping_resp = FALSE
  /\ data = << >>
  /\ gotPing = FALSE
  /\ inbuf = << >>
  /\ peer = "open"
  /\ call = NoCall("connect")
  /\ ret = << 0 >>
  /\ raised = "none"
  /\ wire = << >>
  /\ delivered = << >>
  /\ pkt = NoPkt
  /\ old = Entry
  /\ calls = 0

\* _send(ctrl_typ, flags, payload) with a payload of size bytes, up to and
\* with its first sendall
send_header(ctrl_typ, flags, size) ==
  /\ pc = "idle"
  /\ \E h \in { FixedHeader(ctrl_typ, flags, size) } :
        /\ raised' = h.raised
        /\ wire' = IF h.raised = "none" THEN << h.bytes >> ELSE << >>
  /\ call' = CodecCall("_send", ctrl_typ, flags, size)
  /\ ret' = << >>
  /\ delivered' = << >>
  /\ pkt' = NoPkt
  /\ old' = Entry
  /\ UNCHANGED << client, locals, net, nIssued, calls >>

\* remaining_len(size), whose bytes a peer that echoes them writes back
encode(size) ==
  /\ pc = "idle"
  /\ \E rl \in { remaining_len(size) } :
        /\ raised' = rl.raised
        /\ ret' = IF rl.raised = "none" THEN << rl.bytes >> ELSE << >>
        /\ inbuf' = rl.bytes
  /\ call' = CodecCall("remaining_len", 0, 0, size)
  /\ wire' = << >>
  /\ delivered' = << >>
  /\ pkt' = NoPkt
  /\ old' = Entry
  /\ UNCHANGED << client, locals, peer, nIssued, calls >>

\* _recv_len() on the bytes echoed
decode ==
  /\ pc = "idle"
  /\ call.op = "remaining_len"
  /\ raised = "none"
  /\ \E l \in { _recv_len(inbuf, peer) } :
        /\ raised' = l.raised
        /\ ret' = IF l.raised = "none" THEN << l.value >> ELSE << >>
        /\ inbuf' = l.rest
  /\ call' = [call EXCEPT !.op = "_recv_len"]
  /\ wire' = << >>
  /\ delivered' = << >>
  /\ pkt' = NoPkt
  /\ old' = Entry
  /\ UNCHANGED << client, locals, peer, nIssued, calls >>

\* The caller of the codec: after any number of subscribe calls it applies
\* _send to one set of arguments, or remaining_len to one size and _recv_len
\* to the result (none of the three reads or writes a field of the client).
Rested == call.op \in { "connect", "subscribe" }

CodecNext ==
  \/ Rested /\ \E ctrl_typ \in CtrlTypes, flags \in FlagValues, size \in HeaderSizes :
                  send_header(ctrl_typ, flags, size)
  \/ Rested /\ \E size \in SizeSamples : encode(size)
  \/ decode
  \/ Rested /\ \E fault \in SendFaults : subscribe(<< TopicAB >>, 0, fault)

CodecSpec == CodecInit /\ [][CodecNext]_vars

(***************************************************************************)
(* Properties.                                                              *)
(***************************************************************************)
\* the last operation was a call that draws a packet identifier
Issuing == call.op = "subscribe" \/ (call.op = "publish" /\ call.qos # 0)

\* the last operation ran the handshake
Handshaking == call.op \in { "connect", "reconnect" }

\* the queue q without its i-th entry
WithoutIndex(q, i) == SubSeq(q, 1, i - 1) \o SubSeq(q, i + 1, Len(q))

\* the last operation was a loop round that read a whole PUBACK
ReadPuback ==
  /\ call.op = "loop_packet"
  /\ pkt.ctrl \div 16 = P_PUBACK
  /\ pkt.len = 2
  /\ Len(pkt.own) = 2

\* the identifier that PUBACK carries
AckedId == pkt.own[1] * 256 + pkt.own[2]

\* C1: a publish with qos = 1 that returns gives a nonzero identifier, and the
\* in-flight queue is then what it was before the call followed by one new
\* entry that carries the returned identifier.
C1_PublishAppendsOne ==
  (call.op = "publish" /\ call.qos = 1 /\ raised = "none") =>
    /\ Len(ret) = 1
    /\ ret[1] # 0
    /\ Len(_pub_queue) = Len(old.queue) + 1
    /\ SubSeq(_pub_queue, 1, Len(old.queue)) = old.queue
    /\ _pub_queue[Len(_pub_queue)][1] = ret[1]

\* a QoS-1 publish has returned on a client that already had an entry in flight
C1_Witness ==
  /\ call.op = "publish" /\ call.qos = 1 /\ raised = "none"
  /\ Len(old.queue) >= 1
  /\ Len(_pub_queue) = Len(old.queue) + 1

\* C2: a loop round that reads a PUBACK whose identifier is that of an
\* in-flight entry removes one entry with that identifier and leaves every
\* other entry in place, in order.
C2_PubackRemovesOne ==
  (ReadPuback /\ AckedId \in Ids(old.queue)) =>
    \E i \in DOMAIN old.queue :
      /\ old.queue[i][1] = AckedId
      /\ _pub_queue = WithoutIndex(old.queue, i)

\* a PUBACK has removed one of at least two in-flight entries
C2_Witness ==
  /\ ReadPuback
  /\ AckedId \in Ids(old.queue)
  /\ Len(old.queue) >= 2
  /\ Len(_pub_queue) = Len(old.queue) - 1

\* C3: no two entries of the in-flight queue carry the same packet identifier.
C3_UniqueInFlight ==
  \A i, j \in DOMAIN _pub_queue :
    i # j => _pub_queue[i][1] # _pub_queue[j][1]

\* C4: connected goes from false to true only in a connect or reconnect that
\* read a CONNACK with return code 0, and a handshake whose CONNACK carries a
\* nonzero return code does not leave connected true.
C4_ConnectedOnlyWhenAccepted ==
  /\ (connected /\ ~old.connected) =>
       /\ Handshaking
       /\ pkt.ctrl \div 16 = P_CONNACK
       /\ Len(pkt.own) = 3
       /\ pkt.own[3] = 0
  /\ (Handshaking /\ pkt.ctrl \div 16 = P_CONNACK /\ Len(pkt.own) = 3 /\ pkt.own[3] # 0) =>
       ~connected

\* the last operation was a loop round that read a whole QoS-1 PUBLISH, with
\* room for the topic and the identifier, and ended without an exception
ReadPublishQos1 ==
  /\ call.op = "loop_packet"
  /\ pkt.ctrl \div 16 = P_PUBLISH
  /\ (pkt.ctrl \div 2) % 4 = 1
  /\ pkt.short = "no"
  /\ pkt.len >= 4 + (pkt.own[1] * 256 + pkt.own[2])
  /\ raised = "none"

\* the packet identifier of that PUBLISH: the two bytes after the topic
PublishedId ==
  LET n == pkt.own[1] * 256 + pkt.own[2] IN SubSeq(pkt.own, 3 + n, 4 + n)

\* C5: a loop round that reads a QoS-1 PUBLISH sends exactly one PUBACK, whose
\* payload is the packet identifier of the PUBLISH, and calls on_message once;
\* for topic "a/b", identifier 1 and payload "hi" the PUBACK payload is 00 01
\* and the message is ("a/b", "hi", 1, not retained).
C5_PubackCarriesId ==
  /\ ReadPublishQos1 =>
       /\ wire = << << P_PUBACK * 16, 2 >>, PublishedId >>
       /\ Len(delivered) = 1
       /\ delivered[1].qos = 1
       /\ delivered[1].retain = pkt.ctrl % 2
  /\ (ReadPublishQos1 /\ pkt.own = << 0, 3, 97, 47, 98, 0, 1, 104, 105 >>) =>
       /\ wire[2] = << 0, 1 >>
       /\ delivered[1].topic = << 97, 47, 98 >>
       /\ delivered[1].payload = << 104, 105 >>

\* C6: the counter always lies in 1..65535; a call that draws an identifier
\* moves it to its successor (1 after 65535) whether the call is subscribe or
\* publish, and returns the new value; no other operation moves it.
C6_IdentifierSuccessor ==
  /\ _packet_id \in 1 .. IdMask
  /\ Issuing => _packet_id = (IF old.id = IdMask THEN 1 ELSE old.id + 1)
  /\ (Issuing /\ raised = "none") => ret = << _packet_id >>
  /\ ~Issuing => _packet_id = old.id

\* a subscribe has returned 1 because the counter stood at 65535
C6_Witness ==
  /\ call.op = "subscribe"
  /\ raised = "none"
  /\ old.id = IdMask
  /\ ret = << 1 >>

\* C7 as stated: the k-th identifier-drawing call of a client returns the k-th
\* term of 1, 2, ..., 65535, 1, 2, ...
C7_StartsAtOne ==
  (Issuing /\ raised = "none") => ret = << ((nIssued - 1) % IdMask) + 1 >>

\* C7 as amended: the k-th identifier-drawing call of a client returns the
\* k-th term of 2, 3, ..., 65535, 1, 2, ...
C7_StartsAtTwo ==
  (Issuing /\ raised = "none") => ret = << (nIssued % IdMask) + 1 >>

\* the first identifier-drawing call of a fresh client has returned 2
C7_Witness ==
  /\ Issuing
  /\ raised = "none"
  /\ nIssued = 1
  /\ old.id = 1
  /\ ret = << 2 >>

\* C8: a publish with qos = 0 that returns gives 0 and leaves the in-flight
\* queue and the counter as they were.
C8_PublishQos0ReturnsZero ==
  (call.op = "publish" /\ call.qos = 0 /\ raised = "none") =>
    /\ ret = << 0 >>
    /\ _pub_queue = old.queue
    /\ _packet_id = old.id

\* C9: a loop round in which a read falls short (at the fixed-header byte, in
\* the remaining length or in the payload) sets connected to false and makes
\* loop_read return; no exception leaves loop_read.
C9_ReadFailureDisconnects ==
  (call.op = "loop_packet" /\ pkt.short # "no") =>
    /\ ~connected
    /\ raised = "none"
    /\ pc = "idle"

\* C10: a handshake returns only after a first byte with high nibble CONNACK
\* and a return code of 0, and then returns the low bit of the flags byte; a
\* first byte of another type, or a nonzero return code, makes it raise.
C10_HandshakeResult ==
  Handshaking =>
    /\ raised = "none" =>
         /\ pkt.ctrl \div 16 = P_CONNACK
         /\ Len(pkt.own) = 3
         /\ pkt.own[3] = 0
         /\ ret = << pkt.own[2] % 2 >>
    /\ (pkt.short # "header"
          /\ (pkt.ctrl \div 16 # P_CONNACK \/ (Len(pkt.own) = 3 /\ pkt.own[3] # 0))) =>
         /\ raised # "none"
         /\ ret = << >>

\* a reconnect has returned 1: the broker reported a session
C10_Witness ==
  /\ call.op = "reconnect"
  /\ raised = "none"
  /\ pkt.own = << 2, 1, 0 >>
  /\ ret = << 1 >>

\* the last operation ended a loop_read call by returning
LoopReturned ==
  /\ call.op \in { "loop_packet", "loop_return" }
  /\ pc = "idle"
  /\ raised = "none"

\* the last operation was a loop round that read a whole packet of a type for
\* which loop_read has no handler
ReadUnhandled ==
  /\ call.op = "loop_packet"
  /\ pkt.short = "no"
  /\ pkt.ctrl \div 16 \notin { P_PINGRESP, P_SUBACK, P_PUBLISH, P_PUBACK, P_DISCONNECT }
  /\ pkt.len = Len(pkt.own)

\* C11: a loop_read call that returns gives true exactly when one of its rounds
\* read a PINGRESP, and a round that reads a packet of an unhandled type raises
\* nothing, changes nothing of the client and lets the loop go on.
C11_ReturnsPingSeen ==
  /\ LoopReturned => ret = << IF gotPing THEN 1 ELSE 0 >>
  /\ ReadUnhandled =>
       /\ raised = "none"
       /\ pc = "loop"
       /\ _pub_queue = old.queue
       /\ connected = old.connected

\* a loop_read call has returned true after a round that read a packet other
\* than the PINGRESP
C11_Witness ==
  /\ LoopReturned
  /\ gotPing
  /\ ret = << 1 >>
  /\ pkt.ctrl \div 16 \notin { 0, P_PINGRESP }

\* the last operation was a loop round that read a DISCONNECT
ReadDisconnect ==
  /\ call.op = "loop_packet"
  /\ pkt.short = "no"
  /\ pkt.ctrl \div 16 = P_DISCONNECT
  /\ pkt.len = 0

\* C12: a loop round that reads a DISCONNECT sets connected to false and ends
\* the loop_read call, which returns; the bytes that were behind the DISCONNECT
\* are all still unread, and nothing was sent, delivered or taken off the
\* in-flight queue.
C12_DisconnectEndsCall ==
  ReadDisconnect =>
    /\ ~connected
    /\ pc = "idle"
    /\ raised = "none"
    /\ Len(ret) = 1
    /\ inbuf = SubSeq(old.inbuf, 3, Len(old.inbuf))
    /\ wire = << >>
    /\ delivered = << >>
    /\ _pub_queue = old.queue

\* a DISCONNECT has ended a loop_read call of a connected client with a whole
\* packet unread behind it
C12_Witness ==
  /\ ReadDisconnect
  /\ old.connected
  /\ pc = "idle"
  /\ Len(inbuf) >= 2
  /\ Len(old.inbuf) = Len(inbuf) + 2

\* the last operation handed a fixed header to the transport
SentHeader ==
  /\ call.op \in { "_send", "subscribe" }
  /\ wire # << >>

\* C13: the fixed-header byte that _send writes for a SUBSCRIBE, UNSUBSCRIBE
\* or PUBREL has type nibble as passed and flags nibble 0b0010, whatever flags
\* value it was called with; so has the one that subscribe writes.
C13_FlagsOverride ==
  /\ (SentHeader /\ call.op = "_send"
         /\ call.ctrl_typ \in { P_SUBSCRIBE, P_UNSUBSCRIBE, P_PUBREL }) =>
       /\ wire[1][1] % 16 = 2
       /\ wire[1][1] \div 16 = call.ctrl_typ
  /\ (SentHeader /\ call.op = "subscribe") => wire[1][1] = P_SUBSCRIBE * 16 + 2

\* _send was called for a SUBSCRIBE with every flag bit set and wrote 0x82
C13_Witness ==
  /\ SentHeader
  /\ call.op = "_send"
  /\ call.ctrl_typ = P_SUBSCRIBE
  /\ call.flags = 15
  /\ wire[1][1] = 130

RECURSIVE BitLength(_)
BitLength(n) == IF n = 0 THEN 0 ELSE 1 + BitLength(n \div 2)

\* 1 for a size below 128, otherwise ceil(bitlength(size) / 7)
MinimalLen(size) == IF size < 128 THEN 1 ELSE (BitLength(size) + 6) \div 7

\* C14: for a size of at most 268435454, remaining_len gives the minimal
\* number of bytes, at most 4, each with its continuation bit set except the
\* last, and _recv_len reads exactly those bytes and gives the size back.
C14_LengthRoundTrip ==
  /\ (call.op = "remaining_len" /\ call.size <= 268435454) =>
       /\ raised = "none"
       /\ Len(ret[1]) = MinimalLen(call.size)
       /\ Len(ret[1]) <= 4
       /\ \A i \in DOMAIN ret[1] : (ret[1][i] >= 128) <=> (i < Len(ret[1]))
  /\ (call.op = "_recv_len" /\ call.size <= 268435454) =>
       /\ raised = "none"
       /\ ret = << call.size >>
       /\ inbuf = << >>

\* the largest size of the claim has come back from its four bytes
C14_Witness ==
  /\ call.op = "_recv_len"
  /\ call.size = 268435454
  /\ ret = << 268435454 >>

\* the last operation was given a payload size to encode
Sized == call.op \in { "_send", "remaining_len" }

\* C15 as stated: every size above 268435454 is refused with an error and
\* nothing is handed to the transport.
C15_RefusedAbove268435454 ==
  (Sized /\ call.size > 268435454) =>
    /\ raised # "none"
    /\ wire = << >>
    /\ ret = << >>

\* C15 as amended: every size above 268435455 is refused with an
\* AssertionError and nothing is handed to the transport; 268435455 itself
\* is encoded, as ff ff ff 7f.
C15_RefusedAbove268435455 ==
  /\ (Sized /\ call.size > MaxRemaining) =>
       /\ raised = "AssertionError"
       /\ wire = << >>
       /\ ret = << >>
  /\ (Sized /\ call.size = MaxRemaining) => raised = "none"
  /\ (call.op = "remaining_len" /\ call.size = MaxRemaining) =>
       ret = << << 255, 255, 255, 127 >> >>

\* _send was called with a payload one byte too long and wrote nothing
C15_Witness ==
  /\ call.op = "_send"
  /\ call.size = MaxRemaining + 1
  /\ raised = "AssertionError"
  /\ wire = << >>

\* every entry of the queue q is still in the queue r, unaltered and in place
Kept(q, r) == Len(q) <= Len(r) /\ SubSeq(r, 1, Len(q)) = q

\* C16: whatever the last operation was, the in-flight queue still holds every
\* entry it held before, unaltered, unless the operation was a loop round that
\* read a PUBACK carrying the identifier of an entry, and then only one entry
\* with that identifier is gone.
C16_EntryStaysUntilAcked ==
  \/ Kept(old.queue, _pub_queue)
  \/ /\ ReadPuback
     /\ \E i \in DOMAIN old.queue :
           /\ old.queue[i][1] = AckedId
           /\ _pub_queue = WithoutIndex(old.queue, i)

\* C17: a loop round that reads a PUBACK whose identifier is that of no
\* in-flight entry raises nothing, leaves the in-flight queue and connected as
\* they were, consumes the four bytes of the PUBACK and no more, and does not
\* end the loop.
C17_OrphanPubackIgnored ==
  (ReadPuback /\ AckedId \notin Ids(old.queue)) =>
    /\ raised = "none"
    /\ _pub_queue = old.queue
    /\ connected = old.connected
    /\ pc = "loop"
    /\ inbuf = SubSeq(old.inbuf, 5, Len(old.inbuf))
    /\ wire = << >>
    /\ delivered = << >>

\* a PUBACK for an unknown identifier was read by a connected client with an
\* entry in flight, and the next packet is waiting to be read
C17_Witness ==
  /\ ReadPuback
  /\ AckedId \notin Ids(old.queue)
  /\ old.queue # << >>
  /\ old.connected
  /\ pc = "loop"
  /\ inbuf # << >>

\* the last operation was a loop round that read a packet with remaining
\* length 0, so with no payload of its own
ReadEmpty ==
  /\ call.op = "loop_packet"
  /\ pkt.short = "no"
  /\ pkt.ctrl # 0
  /\ pkt.len = 0

\* C18: a loop round that reads a packet with remaining length 0 passes no
\* message to on_message, takes no entry off the in-flight queue and sends
\* nothing: there are no payload bytes of its own for a handler to act on.
C18_NoStalePayload ==
  ReadEmpty =>
    /\ delivered = << >>
    /\ _pub_queue = old.queue
    /\ wire = << >>

\* C19: after a connect or reconnect that did not return (the transport could
\* not be opened, CONNECT could not be sent, the reply was no CONNACK, was cut
\* short or carried a nonzero return code) connected is false, whatever it was
\* before the call.
C19_FailedAttemptDisconnects ==
  (Handshaking /\ raised # "none") => ~connected

\* the last operation was a loop round that read a QoS-1 PUBLISH with a
\* payload of its own
ReadQos1 ==
  /\ call.op = "loop_packet"
  /\ pkt.short = "no"
  /\ pkt.ctrl \div 16 = P_PUBLISH
  /\ (pkt.ctrl \div 2) % 4 = 1
  /\ pkt.len > 0

\* both writes of a PUBACK have been handed to the transport
PubackWritten ==
  /\ Len(wire) = 2
  /\ wire[1] = << P_PUBACK * 16, 2 >>
  /\ Len(wire[2]) = 2

\* C20: in a loop round that reads a QoS-1 PUBLISH, on_message is called only
\* once the PUBACK has been written whole; when on_message raises, the
\* exception leaves loop_read, which returns nothing, and the bytes behind the
\* PUBLISH are all still unread.
C20_AckBeforeCallback ==
  /\ (ReadQos1 /\ delivered # << >>) => PubackWritten
  /\ (ReadQos1 /\ raised = "CallbackError") =>
       /\ PubackWritten
       /\ Len(delivered) = 1
       /\ pc = "idle"
       /\ ret = << >>
       /\ inbuf = SubSeq(old.inbuf, 3 + pkt.len, Len(old.inbuf))
  /\ (call.op = "loop_packet" /\ raised # "none") => (pc = "idle" /\ ret = << >>)

\* on_message has raised for a QoS-1 PUBLISH whose PUBACK is written, with a
\* packet still unread behind it
C20_Witness ==
  /\ ReadQos1
  /\ raised = "CallbackError"
  /\ PubackWritten
  /\ pc = "idle"
  /\ Len(inbuf) >= 2

====
